---- MODULE Spec2Model ----
(***************************************************************************)
(* Flash-loan issuance and repayment (pinocchio_flash_loan): the Loan and  *)
(* Repay instructions, executed by a host that runs the instructions of    *)
(* one transaction in order and discards every effect when one fails.      *)
(* And the vault program (pinnochio_101): Deposit and Withdraw on a vault  *)
(* account at an address derived from its owner (VaultSpec).               *)
(***************************************************************************)
EXTENDS Integers, Sequences, FiniteSets, TLC

(***************************************************************************)
(* Bounds of the model.                                                    *)
(***************************************************************************)
\* Instructions executed before the transaction's last instruction.
MaxIx == 3

(***************************************************************************)
(* Program constants and account identifiers.                              *)
(***************************************************************************)
\* u64::MAX, with the word width scaled from 64 to 16 bits.
U64_MAX == 65535
\* size_of::<LoanData>(): a packed 32-byte key and a u64.
LOAN_DATA_SIZE == 40
\* size_of::<[u8; 32]>(): the offset of the obligation in an entry.
PUBKEY_SIZE == 32
\* Basis-point denominator of the fee.
BPS_DENOMINATOR == 10000
\* Loan::DISCRIMINATOR and Repay::DISCRIMINATOR.
LOAN_DISCRIMINATOR == 0
REPAY_DISCRIMINATOR == 1

ID == "FlashLoanProgram"
OtherProgram == "OtherProgram"
INSTRUCTIONS_ID == "SysvarInstructions"
FakeSysvar == "FakeSysvar"
\* The key a zero-filled ledger entry holds.
ZeroKey == "ZeroKey"

LedgerAddrs == {"L1", "L2"}
TokenAccts == {"P1", "P2", "P3", "B1"}

\* Result of a checked operation that overflowed.
None == 0 - 1

(***************************************************************************)
(* Helpers of the ledger codec and of the external primitives.             *)
(***************************************************************************)
ZeroEntry == [key |-> ZeroKey, balance |-> 0]

\* An account with no data and no lamports (never created, or closed).
EmptyLedger == [len |-> 0, entries |-> <<>>, lamports |-> 0]

\* A freshly created program-owned account of `space` zeroed bytes.
CreatedAccount(space, lamports) ==
    [len |-> space,
     entries |-> [i \in 1..(space \div LOAN_DATA_SIZE) |-> ZeroEntry],
     lamports |-> lamports]

\* Rent::minimum_balance with the runtime's default rent parameters.
RentMinimumBalance(size) == (128 + size) * 6960

\* The token authority of an asset account: the protocol's derived signing
\* identity for the pool accounts, the borrower for the borrower's own.
Authority(a) == IF a \in {"P1", "P2", "P3"} THEN "pda" ELSE "user"

\* get_token_amount: the u64 at offset 64 of a token account's data.
get_token_amount(tok, a) == tok[a]

\* Token transfer: fails when the authority is invalid, the source is short
\* or the destination would overflow; a self-transfer moves nothing.
TokenTransfer(tok, from, to, amount, signer) ==
    IF Authority(from) # signer \/ tok[from] < amount
    THEN [ok |-> FALSE, tokens |-> tok]
    ELSE IF from = to
    THEN [ok |-> TRUE, tokens |-> tok]
    ELSE IF tok[to] + amount > U64_MAX
    THEN [ok |-> FALSE, tokens |-> tok]
    ELSE [ok |-> TRUE,
          tokens |-> [tok EXCEPT ![from] = @ - amount, ![to] = @ + amount]]

\* Faulty variant of the obligation: the addition wraps around.
BalanceWithFee_Wrapping(balance, amount, fee) ==
    IF fee # 0 /\ amount > U64_MAX \div fee
    THEN None
    ELSE (balance + (amount * fee) \div BPS_DENOMINATOR) % (U64_MAX + 1)

\* Faulty variant of the fee computation: rounds the fee up.
CheckedFee_RoundUp(amount, fee) ==
    IF fee # 0 /\ amount > U64_MAX \div fee
    THEN None
    ELSE (amount * fee + BPS_DENOMINATOR - 1) \div BPS_DENOMINATOR

\* amount.checked_mul(fee).and_then(|x| x.checked_div(10_000))
CheckedFee(amount, fee) ==
    IF fee # 0 /\ amount > U64_MAX \div fee
    THEN None
    ELSE (amount * fee) \div BPS_DENOMINATOR

\* balance.checked_add(fee amount)
BalanceWithFee(balance, amount, fee) ==
    LET f == CheckedFee(amount, fee)
    IN  IF f = None THEN None
        ELSE IF balance + f > U64_MAX THEN None
        ELSE balance + f

(***************************************************************************)
(* Instructions: target program, payload and account list.  A payload is   *)
(* its discriminator byte (None: the payload is empty), the number of header *)
(* bytes present (bump and 2-byte fee: 3), the fee, the amounts and the    *)
(* number of bytes left over after the last whole amount.                  *)
(***************************************************************************)
Payload(disc, hdr, fee, amounts, rem) ==
    [disc |-> disc, hdr |-> hdr, fee |-> fee, amounts |-> amounts, rem |-> rem]

Ix(prog, data, accts) == [prog |-> prog, data |-> data, accts |-> accts]

NoIx == Ix("none", Payload(None, 0, 0, <<>>, 0), <<>>)

(***************************************************************************)
(* Loan: request parsers.                                                  *)
(***************************************************************************)
\* LoanAccounts::try_from: the first failing check, or "Ok".
LoanAccountsTryFrom(accts, led) ==
    IF Len(accts) < 6 THEN "NotEnoughAccountKeys"
    ELSE IF accts[4] # INSTRUCTIONS_ID THEN "UnsupportedIntrospectionSource"
    ELSE IF (Len(accts) - 6) % 2 # 0 \/ Len(accts) - 6 = 0 THEN "AssetListShape"
    ELSE IF led[accts[3]].len # 0 THEN "LedgerNotEmpty"
    ELSE "Ok"

\* The asset accounts of a Loan: the tail after the six fixed accounts.
LoanTokenAccounts(accts) == SubSeq(accts, 7, Len(accts))

\* Faulty variant of LoanInstructionData::try_from: bytes left over after
\* the last whole amount are ignored.
LoanInstructionDataTryFrom_IgnoresRemainder(data) ==
    IF data.hdr < 3 THEN "BadPayload" ELSE "Ok"

\* LoanInstructionData::try_from, on the payload after the discriminator.
LoanInstructionDataTryFrom(data) ==
    IF data.hdr < 1 THEN "BadPayload"
    ELSE IF data.hdr < 3 THEN "BadPayload"
    ELSE IF (8 * Len(data.amounts) + data.rem) % 8 # 0 THEN "BadPayload"
    ELSE "Ok"

\* Faulty variant of Loan::try_from: the payload is parsed before the
\* accounts are checked.
LoanTryFrom_PayloadFirst(ix, led) ==
    LET a == LoanAccountsTryFrom(ix.accts, led)
        d == LoanInstructionDataTryFrom(ix.data)
    IN  IF d # "Ok" THEN d
        ELSE IF a # "Ok" THEN a
        ELSE IF Len(ix.data.amounts) # Len(LoanTokenAccounts(ix.accts)) \div 2
        THEN "ArityMismatch"
        ELSE "Ok"

\* Faulty variant of Loan::try_from: the amounts are compared with the
\* number of asset accounts instead of the number of pairs.
LoanTryFrom_CountsAccounts(ix, led) ==
    LET a == LoanAccountsTryFrom(ix.accts, led)
        d == LoanInstructionDataTryFrom(ix.data)
    IN  IF a # "Ok" THEN a
        ELSE IF d # "Ok" THEN d
        ELSE IF Len(ix.data.amounts) # Len(LoanTokenAccounts(ix.accts))
        THEN "ArityMismatch"
        ELSE "Ok"

\* Loan::try_from: accounts first, then the payload, then the arity check.
LoanTryFrom(ix, led) ==
    LET a == LoanAccountsTryFrom(ix.accts, led)
        d == LoanInstructionDataTryFrom(ix.data)
    IN  IF a # "Ok" THEN a
        ELSE IF d # "Ok" THEN d
        ELSE IF Len(ix.data.amounts) # Len(LoanTokenAccounts(ix.accts)) \div 2
        THEN "ArityMismatch"
        ELSE "Ok"

\* The ProgramError value each failing check returns.
ErrCode(kind) ==
    CASE kind = "Ok" -> "Ok"
      [] kind = "NotEnoughAccountKeys" -> "NotEnoughAccountKeys"
      [] kind = "UnsupportedIntrospectionSource" -> "UnsupportedSysvar"
      [] kind = "AssetListShape" -> "InvalidAccountData"
      [] kind = "LedgerNotEmpty" -> "InvalidAccountData"
      [] kind = "BadPayload" -> "InvalidInstructionData"
      [] kind = "ArityMismatch" -> "InvalidInstructionData"
      [] kind = "FeeOverflow" -> "InvalidInstructionData"
      [] kind = "MissingOrInvalidRepay" -> "InvalidInstructionData"
      [] kind = "RepayArityMismatch" -> "InvalidAccountData"
      [] kind = "OutOfOrderOrWrongAccount" -> "InvalidAccountData"
      [] kind = "InsufficientRepayment" -> "InvalidAccountData"
      [] kind = "UnknownInstruction" -> "InvalidInstructionData"
      [] OTHER -> "Custom"

(***************************************************************************)
(* Loan: processor.                                                        *)
(***************************************************************************)
\* Faulty variant of the loop: the entry is written after the transfer.
RECURSIVE LoanLegs_WritesAfterTransfer(_, _, _, _, _, _)
LoanLegs_WritesAfterTransfer(tok, entries, toks, amounts, fee, i) ==
    IF i > Len(amounts)
    THEN [tokens |-> tok, entries |-> entries, err |-> "Ok"]
    ELSE IF 2 * i > Len(toks)
    THEN [tokens |-> tok, entries |-> entries, err |-> "IndexPanic"]
    ELSE LET balance_with_fee ==
                 BalanceWithFee(get_token_amount(tok, toks[2 * i - 1]), amounts[i], fee)
             t == TokenTransfer(tok, toks[2 * i - 1], toks[2 * i], amounts[i], "pda")
         IN  IF balance_with_fee = None
             THEN [tokens |-> tok, entries |-> entries, err |-> "FeeOverflow"]
             ELSE IF ~t.ok
             THEN [tokens |-> tok, entries |-> entries, err |-> "TransferFailed"]
             ELSE LoanLegs_WritesAfterTransfer(
                      t.tokens,
                      [entries EXCEPT ![i] = [key |-> toks[2 * i - 1],
                                              balance |-> balance_with_fee]],
                      toks, amounts, fee, i + 1)

\* Faulty variant of the loop: a failed transfer is ignored and the loop
\* goes on.
RECURSIVE LoanLegs_IgnoresFailedTransfer(_, _, _, _, _, _)
LoanLegs_IgnoresFailedTransfer(tok, entries, toks, amounts, fee, i) ==
    IF i > Len(amounts)
    THEN [tokens |-> tok, entries |-> entries, err |-> "Ok"]
    ELSE IF 2 * i > Len(toks)
    THEN [tokens |-> tok, entries |-> entries, err |-> "IndexPanic"]
    ELSE LET balance_with_fee ==
                 BalanceWithFee(get_token_amount(tok, toks[2 * i - 1]), amounts[i], fee)
         IN  IF balance_with_fee = None
             THEN [tokens |-> tok, entries |-> entries, err |-> "FeeOverflow"]
             ELSE LoanLegs_IgnoresFailedTransfer(
                      TokenTransfer(tok, toks[2 * i - 1], toks[2 * i],
                                    amounts[i], "pda").tokens,
                      [entries EXCEPT ![i] = [key |-> toks[2 * i - 1],
                                              balance |-> balance_with_fee]],
                      toks, amounts, fee, i + 1)

\* The loop over the legs (1-based here): read the pool balance, compute
\* the obligation, write the entry, transfer.  Returns at the first error;
\* indexing past the asset accounts panics.
RECURSIVE LoanLegs(_, _, _, _, _, _)
LoanLegs(tok, entries, toks, amounts, fee, i) ==
    IF i > Len(amounts)
    THEN [tokens |-> tok, entries |-> entries, err |-> "Ok"]
    ELSE IF 2 * i > Len(toks)
    THEN [tokens |-> tok, entries |-> entries, err |-> "IndexPanic"]
    ELSE LET protocol_token_account == toks[2 * i - 1]
             borrower_token_account == toks[2 * i]
             balance == get_token_amount(tok, protocol_token_account)
             balance_with_fee == BalanceWithFee(balance, amounts[i], fee)
         IN  IF balance_with_fee = None
             THEN [tokens |-> tok, entries |-> entries, err |-> "FeeOverflow"]
             ELSE LET written == [entries EXCEPT ![i] =
                                    [key |-> protocol_token_account,
                                     balance |-> balance_with_fee]]
                      t == TokenTransfer(tok, protocol_token_account,
                                         borrower_token_account, amounts[i], "pda")
                  IN  IF ~t.ok
                      THEN [tokens |-> tok, entries |-> written,
                            err |-> "TransferFailed"]
                      ELSE LoanLegs(t.tokens, written, toks, amounts, fee, i + 1)

\* Faulty variant of the guard: the discriminator compared with is the
\* Loan's.
AtomicityGuard_WrongDiscriminator(last, loanKey, ubByte, ubKey) ==
    LET first == IF last.data.disc = None THEN ubByte ELSE last.data.disc
        meta1 == IF Len(last.accts) < 2 THEN ubKey ELSE last.accts[2]
    IN  IF last.prog # ID THEN "MissingOrInvalidRepay"
        ELSE IF first # LOAN_DISCRIMINATOR THEN "MissingOrInvalidRepay"
        ELSE IF meta1 # loanKey THEN "MissingOrInvalidRepay"
        ELSE "Ok"

\* Faulty variant of the guard: the ledger of the closing Repay is not
\* compared with the Loan's.
AtomicityGuard_AnyLedger(last, loanKey, ubByte, ubKey) ==
    LET first == IF last.data.disc = None THEN ubByte ELSE last.data.disc
    IN  IF last.prog # ID THEN "MissingOrInvalidRepay"
        ELSE IF first # REPAY_DISCRIMINATOR THEN "MissingOrInvalidRepay"
        ELSE "Ok"

\* The atomicity guard on the transaction's last instruction.  The first
\* payload byte and the account meta at index 1 are read unchecked: on an
\* empty payload the byte read is ubByte, with fewer than two account metas
\* the key read is ubKey.
AtomicityGuard(last, loanKey, ubByte, ubKey) ==
    LET first == IF last.data.disc = None THEN ubByte ELSE last.data.disc
        meta1 == IF Len(last.accts) < 2 THEN ubKey ELSE last.accts[2]
    IN  IF last.prog # ID THEN "MissingOrInvalidRepay"
        ELSE IF first # REPAY_DISCRIMINATOR THEN "MissingOrInvalidRepay"
        ELSE IF meta1 # loanKey THEN "MissingOrInvalidRepay"
        ELSE "Ok"

\* Loan::process on a parsed request, from state st = [tokens, ledgers,
\* borrower]: the state it leaves behind and the first error, or "Ok".
LoanProcess(st, ix, last, ubByte, ubKey) ==
    LET loan == ix.accts[3]
        toks == LoanTokenAccounts(ix.accts)
        amounts == ix.data.amounts
        size == LOAN_DATA_SIZE * Len(amounts)
        lamports == RentMinimumBalance(size)
    IN  IF st.borrower < lamports
        THEN [tokens |-> st.tokens, ledgers |-> st.ledgers,
              borrower |-> st.borrower, err |-> "CreateAccountFailed"]
        ELSE LET legs == LoanLegs(st.tokens, CreatedAccount(size, lamports).entries,
                                  toks, amounts, ix.data.fee, 1)
                 led == [st.ledgers EXCEPT ![loan] =
                           [len |-> size, entries |-> legs.entries,
                            lamports |-> lamports]]
             IN  [tokens |-> legs.tokens, ledgers |-> led,
                  borrower |-> st.borrower - lamports,
                  err |-> IF legs.err # "Ok" THEN legs.err
                          ELSE AtomicityGuard(last, loan, ubByte, ubKey)]

\* The Loan instruction: Loan::try_from, then Loan::process.
LoanInstruction(st, ix, last, ubByte, ubKey) ==
    LET parsed == LoanTryFrom(ix, st.ledgers)
    IN  IF parsed # "Ok"
        THEN [tokens |-> st.tokens, ledgers |-> st.ledgers,
              borrower |-> st.borrower, err |-> parsed]
        ELSE LoanProcess(st, ix, last, ubByte, ubKey)

(***************************************************************************)
(* Repay.                                                                  *)
(***************************************************************************)
\* RepayAccounts::try_from.
RepayAccountsTryFrom(accts) ==
    IF Len(accts) < 2 THEN "NotEnoughAccountKeys" ELSE "Ok"

RepayTokenAccounts(accts) == SubSeq(accts, 3, Len(accts))

\* Faulty variant of the obligation read: the entries are taken to be
\* PUBKEY_SIZE bytes apart.
ReadU64At_WrongStride(entries, off) ==
    IF off % PUBKEY_SIZE = 0 /\ off \div PUBKEY_SIZE < Len(entries)
    THEN entries[off \div PUBKEY_SIZE + 1].balance
    ELSE None

\* Repay's raw reads of the ledger data, against the layout of the packed
\* LoanData entries it holds: a 32-byte key at byte offset off, a u64 at
\* byte offset off.  A read that does not start at such a field yields
\* bytes that are no field's value.
ReadKeyAt(entries, off) ==
    IF off % LOAN_DATA_SIZE = 0 /\ off \div LOAN_DATA_SIZE < Len(entries)
    THEN entries[off \div LOAN_DATA_SIZE + 1].key
    ELSE "Torn"

ReadU64At(entries, off) ==
    IF off % LOAN_DATA_SIZE = PUBKEY_SIZE /\ off \div LOAN_DATA_SIZE < Len(entries)
    THEN entries[off \div LOAN_DATA_SIZE + 1].balance
    ELSE None

\* Faulty variant of the Repay loop: an entry's account is looked up among
\* the supplied accounts instead of being taken at the entry's position.
RECURSIVE RepayChecks_BySearch(_, _, _, _, _)
RepayChecks_BySearch(tok, entries, toks, loan_num, i) ==
    IF i > loan_num THEN "Ok"
    ELSE IF \A j \in 1..Len(toks) :
               ReadKeyAt(entries, (i - 1) * LOAN_DATA_SIZE) # toks[j]
    THEN "OutOfOrderOrWrongAccount"
    ELSE IF get_token_amount(tok, ReadKeyAt(entries, (i - 1) * LOAN_DATA_SIZE))
               < ReadU64At(entries, (i - 1) * LOAN_DATA_SIZE + PUBKEY_SIZE)
    THEN "InsufficientRepayment"
    ELSE RepayChecks_BySearch(tok, entries, toks, loan_num, i + 1)

\* Faulty variant of the Repay loop: only the first entry's balance is
\* compared with its obligation.
RECURSIVE RepayChecks_FirstBalanceOnly(_, _, _, _, _)
RepayChecks_FirstBalanceOnly(tok, entries, toks, loan_num, i) ==
    IF i > loan_num THEN "Ok"
    ELSE IF ReadKeyAt(entries, (i - 1) * LOAN_DATA_SIZE) # toks[i]
    THEN "OutOfOrderOrWrongAccount"
    ELSE IF /\ i = 1
            /\ get_token_amount(tok, toks[i])
                  < ReadU64At(entries, (i - 1) * LOAN_DATA_SIZE + PUBKEY_SIZE)
    THEN "InsufficientRepayment"
    ELSE RepayChecks_FirstBalanceOnly(tok, entries, toks, loan_num, i + 1)

\* The loop over the ledger entries (1-based here): the first failing
\* check, or "Ok".
RECURSIVE RepayChecks(_, _, _, _, _)
RepayChecks(tok, entries, toks, loan_num, i) ==
    IF i > loan_num THEN "Ok"
    ELSE IF ReadKeyAt(entries, (i - 1) * LOAN_DATA_SIZE) # toks[i]
    THEN "OutOfOrderOrWrongAccount"
    ELSE IF get_token_amount(tok, toks[i])
               < ReadU64At(entries, (i - 1) * LOAN_DATA_SIZE + PUBKEY_SIZE)
    THEN "InsufficientRepayment"
    ELSE RepayChecks(tok, entries, toks, loan_num, i + 1)

\* Faulty variant of Repay::process: fewer accounts than entries are
\* accepted, and only the entries they cover are checked.
RepayProcess_ChecksSuppliedOnly(st, ix) ==
    LET loan == ix.accts[2]
        toks == RepayTokenAccounts(ix.accts)
        loan_data == st.ledgers[loan]
        loan_num == loan_data.len \div LOAN_DATA_SIZE
        unchanged(e) == [tokens |-> st.tokens, ledgers |-> st.ledgers,
                         borrower |-> st.borrower, err |-> e]
    IN  IF loan_num < Len(toks) THEN unchanged("RepayArityMismatch")
        ELSE LET c == RepayChecks(st.tokens, loan_data.entries, toks, Len(toks), 1)
             IN  IF c # "Ok" THEN unchanged(c)
                 ELSE [tokens |-> st.tokens,
                       ledgers |-> [st.ledgers EXCEPT ![loan] = EmptyLedger],
                       borrower |-> st.borrower + loan_data.lamports,
                       err |-> "Ok"]

\* Faulty variant of Repay::process: the ledger's lamports are zeroed
\* without being credited to the borrower.
RepayProcess_DropsLamports(st, ix) ==
    LET loan == ix.accts[2]
        toks == RepayTokenAccounts(ix.accts)
        loan_data == st.ledgers[loan]
        loan_num == loan_data.len \div LOAN_DATA_SIZE
        unchanged(e) == [tokens |-> st.tokens, ledgers |-> st.ledgers,
                         borrower |-> st.borrower, err |-> e]
    IN  IF loan_num # Len(toks) THEN unchanged("RepayArityMismatch")
        ELSE LET c == RepayChecks(st.tokens, loan_data.entries, toks, loan_num, 1)
             IN  IF c # "Ok" THEN unchanged(c)
                 ELSE [tokens |-> st.tokens,
                       ledgers |-> [st.ledgers EXCEPT ![loan] = EmptyLedger],
                       borrower |-> st.borrower,
                       err |-> "Ok"]

\* Faulty variant of Repay::process: the ledger is closed before its
\* entries are checked.
RepayProcess_ClosesBeforeChecks(st, ix) ==
    LET loan == ix.accts[2]
        toks == RepayTokenAccounts(ix.accts)
        loan_data == st.ledgers[loan]
        loan_num == loan_data.len \div LOAN_DATA_SIZE
        closed == [st.ledgers EXCEPT ![loan] = EmptyLedger]
    IN  IF loan_num # Len(toks)
        THEN [tokens |-> st.tokens, ledgers |-> st.ledgers,
              borrower |-> st.borrower, err |-> "RepayArityMismatch"]
        ELSE [tokens |-> st.tokens, ledgers |-> closed,
              borrower |-> st.borrower + loan_data.lamports,
              err |-> RepayChecks(st.tokens, loan_data.entries, toks, loan_num, 1)]

\* Faulty variant of Repay::process: the lamports are returned but the
\* ledger's data is left in place.
RepayProcess_LeavesData(st, ix) ==
    LET loan == ix.accts[2]
        toks == RepayTokenAccounts(ix.accts)
        loan_data == st.ledgers[loan]
        loan_num == loan_data.len \div LOAN_DATA_SIZE
        unchanged(e) == [tokens |-> st.tokens, ledgers |-> st.ledgers,
                         borrower |-> st.borrower, err |-> e]
    IN  IF loan_num # Len(toks) THEN unchanged("RepayArityMismatch")
        ELSE LET c == RepayChecks(st.tokens, loan_data.entries, toks, loan_num, 1)
             IN  IF c # "Ok" THEN unchanged(c)
                 ELSE [tokens |-> st.tokens,
                       ledgers |-> [st.ledgers EXCEPT ![loan].lamports = 0],
                       borrower |-> st.borrower + loan_data.lamports,
                       err |-> "Ok"]

\* Repay::process on a parsed request.
RepayProcess(st, ix) ==
    LET loan == ix.accts[2]
        toks == RepayTokenAccounts(ix.accts)
        loan_data == st.ledgers[loan]
        loan_num == loan_data.len \div LOAN_DATA_SIZE
        unchanged(e) == [tokens |-> st.tokens, ledgers |-> st.ledgers,
                         borrower |-> st.borrower, err |-> e]
    IN  IF loan_num # Len(toks) THEN unchanged("RepayArityMismatch")
        ELSE LET c == RepayChecks(st.tokens, loan_data.entries, toks, loan_num, 1)
             IN  IF c # "Ok" THEN unchanged(c)
                 ELSE [tokens |-> st.tokens,
                       ledgers |-> [st.ledgers EXCEPT ![loan] = EmptyLedger],
                       borrower |-> st.borrower + loan_data.lamports,
                       err |-> "Ok"]

\* The Repay instruction: Repay::try_from, then Repay::process.
RepayInstruction(st, ix) ==
    IF RepayAccountsTryFrom(ix.accts) # "Ok"
    THEN [tokens |-> st.tokens, ledgers |-> st.ledgers,
          borrower |-> st.borrower, err |-> RepayAccountsTryFrom(ix.accts)]
    ELSE RepayProcess(st, ix)

\* The entrypoint: the leading discriminator byte selects the instruction.
ProcessInstruction(st, ix, last, ubByte, ubKey) ==
    IF ix.data.disc = LOAN_DISCRIMINATOR
    THEN LoanInstruction(st, ix, last, ubByte, ubKey)
    ELSE IF ix.data.disc = REPAY_DISCRIMINATOR
    THEN RepayInstruction(st, ix)
    ELSE [tokens |-> st.tokens, ledgers |-> st.ledgers,
          borrower |-> st.borrower, err |-> "UnknownInstruction"]

(***************************************************************************)
(* The inputs: the instructions a transaction is made of.                  *)
(***************************************************************************)
LoanAccts(loan, sysvar, toks) ==
    <<"Borrower", "Protocol", loan, sysvar, "TokenProgram", "SystemProgram">> \o toks

LoanIx(loan, toks, fee, amounts) ==
    Ix(ID, Payload(LOAN_DISCRIMINATOR, 3, fee, amounts, 0),
       LoanAccts(loan, INSTRUCTIONS_ID, toks))

RepayIx(loan, toks) ==
    Ix(ID, Payload(REPAY_DISCRIMINATOR, 0, 0, <<>>, 0), <<"Borrower", loan>> \o toks)

Fees == {0, 30}

\* Asset-account lists with as many amounts as pairs: one leg, two legs,
\* one pool account funding both legs, a self-transfer, a source the
\* protocol has no authority over, a second leg whose fee product
\* overflows, a pool so full that balance plus fee overflows, a
\* self-transfer on the second pool.
LoanShapes ==
    { <<(<<"P1", "B1">>), (<<1000>>)>>,
      <<(<<"P1", "B1", "P2", "B1">>), (<<1000, 500>>)>>,
      <<(<<"P1", "B1", "P1", "B1">>), (<<500, 1000>>)>>,
      <<(<<"P1", "P1">>), (<<1000>>)>>,
      <<(<<"B1", "P1">>), (<<1000>>)>>,
      <<(<<"P1", "B1", "P2", "B1">>), (<<1000, 60000>>)>>,
      <<(<<"P3", "B1">>), (<<1000>>)>>,
      <<(<<"P2", "P2">>), (<<500>>)>> }

WellFormedLoans ==
    { LoanIx(l, sh[1], f, sh[2]) : l \in LedgerAddrs, sh \in LoanShapes, f \in Fees }

\* Loans with a defect: amounts and pairs disagree, an odd or empty asset
\* list, a short or ragged payload, a wrong introspection account, too few
\* accounts; alone and together.
MalformedLoans ==
    UNION { { LoanIx(l, <<"P1", "B1", "P2", "B1">>, 30, <<1000>>),
              LoanIx(l, <<"P1", "B1">>, 30, <<1000, 500>>),
              LoanIx(l, <<"P1">>, 30, <<1000>>),
              LoanIx(l, <<>>, 30, <<>>),
              Ix(ID, Payload(LOAN_DISCRIMINATOR, 2, 30, <<>>, 0),
                 LoanAccts(l, INSTRUCTIONS_ID, <<"P1", "B1">>)),
              Ix(ID, Payload(LOAN_DISCRIMINATOR, 3, 30, <<1000>>, 4),
                 LoanAccts(l, INSTRUCTIONS_ID, <<"P1", "B1">>)),
              Ix(ID, Payload(LOAN_DISCRIMINATOR, 3, 30, <<1000>>, 0),
                 LoanAccts(l, FakeSysvar, <<"P1", "B1">>)),
              Ix(ID, Payload(LOAN_DISCRIMINATOR, 3, 30, <<1000>>, 0),
                 LoanAccts(l, FakeSysvar, <<"P1">>)),
              Ix(ID, Payload(LOAN_DISCRIMINATOR, 3, 30, <<1000>>, 0),
                 <<"Borrower", "Protocol", l>>) } : l \in LedgerAddrs }

LoanIxs == WellFormedLoans \cup MalformedLoans

RepayLists ==
    { <<>>, <<"P1">>, <<"P2">>, <<"P1", "P2">>, <<"P2", "P1">>, <<"P1", "P1">> }

RepayIxs ==
    { RepayIx(l, toks) : l \in LedgerAddrs, toks \in RepayLists }
        \cup { Ix(ID, Payload(REPAY_DISCRIMINATOR, 0, 0, <<>>, 0), <<"Borrower">>) }

\* Last instructions that are no Repay of this program: another program's
\* instruction that looks like one, this program's with an unknown
\* discriminator, with an empty payload, with no accounts, and a Loan.
OtherLastIxs ==
    { Ix(OtherProgram, Payload(REPAY_DISCRIMINATOR, 0, 0, <<>>, 0), <<"Borrower", "L1", "P1">>),
      Ix(ID, Payload(2, 0, 0, <<>>, 0), <<"Borrower", "L1", "P1">>),
      Ix(ID, Payload(None, 0, 0, <<>>, 0), <<"Borrower", "L1", "P1">>),
      Ix(ID, Payload(REPAY_DISCRIMINATOR, 0, 0, <<>>, 0), <<>>),
      LoanIx("L1", <<"P1", "P1">>, 0, <<1000>>) }

LastIxs == RepayIxs \cup OtherLastIxs

\* Amounts the borrower sends back to the pool accounts.
TransferAmounts == {500, 501, 1002, 1003}

\* What the unchecked reads of the atomicity guard can return.
UBBytes(last) ==
    IF last.data.disc = None THEN {LOAN_DISCRIMINATOR, REPAY_DISCRIMINATOR} ELSE {0}
UBKeys(last) ==
    IF Len(last.accts) < 2 THEN LedgerAddrs \cup {ZeroKey} ELSE {ZeroKey}

(***************************************************************************)
(* The vault program (pinnochio_101): Deposit and Withdraw on a vault      *)
(* account kept at an address derived from its owner.                      *)
(***************************************************************************)
\* u64::MAX for lamport amounts, with the word width scaled to 24 bits.
LAMPORTS_MAX == 16777215
\* Deposit::DISCRIMINATOR and Withdraw::DISCRIMINATOR.
DEPOSIT_DISCRIMINATOR == 0
WITHDRAW_DISCRIMINATOR == 1
\* size_of::<u64>(): the length of a Deposit's amount.
U64_SIZE == 8
ACCOUNT_DISCRIMINATOR_SIZE == 8
VAULT_SIZE == ACCOUNT_DISCRIMINATOR_SIZE + U64_SIZE

VAULT_ID == "VaultProgram"
SYSTEM_ID == "SystemProgram"

Owners == {"O1", "O2"}
Vaults == {"V1", "V2"}
VaultKeys == Owners \cup Vaults

\* derive_vault: the address derived from "vault" and the owner's key.
derive_vault(owner) ==
    IF owner = "O1" THEN "V1" ELSE IF owner = "O2" THEN "V2" ELSE "NoAddress"

\* An address that holds no account: no lamports, no data, system-owned.
NoAccount == [lamports |-> 0, data_len |-> 0, owner |-> SYSTEM_ID]

VaultIx(data, accts, signers) == [data |-> data, accts |-> accts, signers |-> signers]

\* u64::from_le_bytes.
RECURSIVE from_le_bytes(_)
from_le_bytes(bytes) ==
    IF bytes = <<>> THEN 0 ELSE Head(bytes) + 256 * from_le_bytes(Tail(bytes))

\* Faulty variant of parse_amount: an amount of zero is accepted.
parse_amount_AcceptsZero(data) ==
    IF Len(data) # U64_SIZE
    THEN [err |-> "InvalidInstructionData", amount |-> 0]
    ELSE [err |-> "Ok", amount |-> from_le_bytes(data)]

\* parse_amount, on the payload after the discriminator.
parse_amount(data) ==
    IF Len(data) # U64_SIZE
    THEN [err |-> "InvalidInstructionData", amount |-> 0]
    ELSE LET amount == from_le_bytes(data)
         IN  IF amount = 0
             THEN [err |-> "InvalidInstructionData", amount |-> 0]
             ELSE [err |-> "Ok", amount |-> amount]

\* u64::checked_add and u64::checked_sub on lamports.
CheckedAdd(a, b) == IF a + b > LAMPORTS_MAX THEN None ELSE a + b
CheckedSub(a, b) == IF a < b THEN None ELSE a - b

\* The system program's CreateAccount, called without signer seeds: it
\* fails when the payer is short or the address is in use; whether the
\* runtime accepts the creation of an address that signs nothing is decided
\* outside this program (accepted).
SystemCreateAccount(st, from, to, lamports, space, owner, accepted) ==
    IF \/ ~accepted
       \/ st[to] # NoAccount
       \/ st[from].lamports < lamports
    THEN [ok |-> FALSE, st |-> st]
    ELSE [ok |-> TRUE,
          st |-> [st EXCEPT ![from].lamports = @ - lamports,
                            ![to] = [lamports |-> lamports, data_len |-> space,
                                     owner |-> owner]]]

\* The system program's Transfer.
SystemTransfer(st, from, to, lamports, signers) ==
    IF \/ from \notin signers
       \/ st[from].data_len # 0
       \/ st[from].lamports < lamports
       \/ CheckedAdd(st[to].lamports, lamports) = None
    THEN [ok |-> FALSE, st |-> st]
    ELSE [ok |-> TRUE,
          st |-> [st EXCEPT ![from].lamports = @ - lamports,
                            ![to].lamports = @ + lamports]]

\* check_vault: the owner signs; a vault without data is created at the
\* derived address with the rent-exempt minimum, a vault with data must be
\* owned by the program.
check_vault(st, owner, vault, signers, accepted) ==
    IF owner \notin signers
    THEN [st |-> st, err |-> "MissingRequiredSignature"]
    ELSE IF st[vault].data_len = 0
    THEN IF vault # derive_vault(owner)
         THEN [st |-> st, err |-> "InvalidSeeds"]
         ELSE LET needed_lamports == RentMinimumBalance(VAULT_SIZE)
                  c == SystemCreateAccount(st, owner, vault, needed_lamports,
                                           VAULT_SIZE, VAULT_ID, accepted)
              IN  IF c.ok THEN [st |-> c.st, err |-> "Ok"]
                  ELSE [st |-> st, err |-> "CreateAccountFailed"]
    ELSE IF st[vault].owner # VAULT_ID
    THEN [st |-> st, err |-> "InvalidAccountOwner"]
    ELSE [st |-> st, err |-> "Ok"]

\* Deposit::try_from: the first failing check, or the parsed amount.
DepositTryFrom(data, accts) ==
    IF Len(accts) < 3 THEN [err |-> "NotEnoughAccountKeys", amount |-> 0]
    ELSE LET p == parse_amount(data)
         IN  IF p.err # "Ok" THEN p
             ELSE IF accts[3] # SYSTEM_ID
             THEN [err |-> "IncorrectProgramId", amount |-> 0]
             ELSE p

\* Deposit::process.
DepositProcess(st, owner, vault, amount, signers, accepted) ==
    LET c == check_vault(st, owner, vault, signers, accepted)
    IN  IF c.err # "Ok" THEN c
        ELSE LET t == SystemTransfer(c.st, owner, vault, amount, signers)
             IN  IF t.ok THEN [st |-> t.st, err |-> "Ok"]
                 ELSE [st |-> c.st, err |-> "TransferFailed"]

\* Withdraw::try_from.
WithdrawTryFrom(accts) ==
    IF Len(accts) < 2 THEN "NotEnoughAccountKeys" ELSE "Ok"

\* Faulty variant of Withdraw::process: the whole balance is withdrawn.
WithdrawProcess_TakesAll(st, owner, vault, signers) ==
    IF owner \notin signers THEN [st |-> st, err |-> "InvalidAccountOwner"]
    ELSE IF st[vault].owner # VAULT_ID THEN [st |-> st, err |-> "InvalidAccountOwner"]
    ELSE IF vault # derive_vault(owner) THEN [st |-> st, err |-> "InvalidAccountData"]
    ELSE IF st[vault].lamports <= RentMinimumBalance(st[vault].data_len)
    THEN [st |-> st, err |-> "InsufficientFunds"]
    ELSE [st |-> [st EXCEPT ![vault].lamports = 0,
                            ![owner].lamports = @ + st[vault].lamports],
          err |-> "Ok"]

\* Faulty variant of Withdraw::process: a vault holding exactly the minimum
\* passes the balance check.
WithdrawProcess_AllowsMinimum(st, owner, vault, signers) ==
    IF owner \notin signers THEN [st |-> st, err |-> "InvalidAccountOwner"]
    ELSE IF st[vault].owner # VAULT_ID THEN [st |-> st, err |-> "InvalidAccountOwner"]
    ELSE IF vault # derive_vault(owner) THEN [st |-> st, err |-> "InvalidAccountData"]
    ELSE IF st[vault].lamports < RentMinimumBalance(st[vault].data_len)
    THEN [st |-> st, err |-> "InsufficientFunds"]
    ELSE LET withdraw_amount ==
                 st[vault].lamports - RentMinimumBalance(st[vault].data_len)
         IN  [st |-> [st EXCEPT ![vault].lamports = @ - withdraw_amount,
                                ![owner].lamports = @ + withdraw_amount],
              err |-> "Ok"]

\* Withdraw::process: the owner signs, the vault is owned by the program and
\* lies at the owner's derived address; what the vault holds above the
\* rent-exempt minimum of its data length goes to the owner.
WithdrawProcess(st, owner, vault, signers) ==
    IF owner \notin signers THEN [st |-> st, err |-> "InvalidAccountOwner"]
    ELSE IF st[vault].owner # VAULT_ID THEN [st |-> st, err |-> "InvalidAccountOwner"]
    ELSE IF vault # derive_vault(owner) THEN [st |-> st, err |-> "InvalidAccountData"]
    ELSE LET data_len == st[vault].data_len
             min_balance == RentMinimumBalance(data_len)
             current == st[vault].lamports
         IN  IF current <= min_balance
             THEN [st |-> st, err |-> "InsufficientFunds"]
             ELSE LET withdraw_amount == current - min_balance
                      vault_lamports == CheckedSub(st[vault].lamports, withdraw_amount)
                      debited == [st EXCEPT ![vault].lamports = vault_lamports]
                      owner_lamports ==
                          CheckedAdd(debited[owner].lamports, withdraw_amount)
                  IN  IF vault_lamports = None
                      THEN [st |-> st, err |-> "InsufficientFunds"]
                      ELSE IF owner_lamports = None
                      THEN [st |-> debited, err |-> "InsufficientFunds"]
                      ELSE [st |-> [debited EXCEPT ![owner].lamports = owner_lamports],
                            err |-> "Ok"]

\* process_instruction: the first byte selects the instruction, the rest is
\* the Deposit's payload.  Returns the accounts the instruction leaves
\* behind, its result and the instruction it was routed to.
process_instruction(st, ix, accepted) ==
    IF ix.data = <<>>
    THEN [st |-> st, err |-> "InvalidInstructionData", route |-> "none"]
    ELSE IF Head(ix.data) = DEPOSIT_DISCRIMINATOR
    THEN LET d == DepositTryFrom(Tail(ix.data), ix.accts)
         IN  IF d.err # "Ok" THEN [st |-> st, err |-> d.err, route |-> "Deposit"]
             ELSE LET r == DepositProcess(st, ix.accts[1], ix.accts[2], d.amount,
                                          ix.signers, accepted)
                  IN  [st |-> r.st, err |-> r.err, route |-> "Deposit"]
    ELSE IF Head(ix.data) = WITHDRAW_DISCRIMINATOR
    THEN IF WithdrawTryFrom(ix.accts) # "Ok"
         THEN [st |-> st, err |-> WithdrawTryFrom(ix.accts), route |-> "Withdraw"]
         ELSE LET r == WithdrawProcess(st, ix.accts[1], ix.accts[2], ix.signers)
              IN  [st |-> r.st, err |-> r.err, route |-> "Withdraw"]
    ELSE [st |-> st, err |-> "InvalidInstructionData", route |-> "none"]

(***************************************************************************)
(* The inputs of the vault program.                                        *)
(***************************************************************************)
\* Payloads of a Deposit after the discriminator: none, 7 bytes, 9 bytes,
\* and 8 bytes encoding 0, 1, 500000 and 2000000.
DepositPayloads ==
    { <<>>,
      <<1, 0, 0, 0, 0, 0, 0>>,
      <<1, 0, 0, 0, 0, 0, 0, 0, 0>>,
      <<0, 0, 0, 0, 0, 0, 0, 0>>,
      <<1, 0, 0, 0, 0, 0, 0, 0>>,
      <<32, 161, 7, 0, 0, 0, 0, 0>>,
      <<128, 132, 30, 0, 0, 0, 0, 0>> }

\* Account lists: an owner and a vault (its own or the other owner's), with
\* the system program, with another program in its place, without it, and
\* the owner alone; signed by the owner or by nobody.
VaultAcctLists ==
    { <<o, v, SYSTEM_ID>> : o \in Owners, v \in Vaults }
        \cup { <<"O1", "V1", OtherProgram>>, <<"O1", "V1">>, <<"O2", "V2">>, <<"O1">> }

VaultSigners(accts) == { {}, {accts[1]} }

DepositIxs ==
    { VaultIx(<<DEPOSIT_DISCRIMINATOR>> \o p, a, sg) :
          <<p, a, sg>> \in { <<p, a, sg>> \in DepositPayloads \X VaultAcctLists \X SUBSET Owners :
                                 sg \in VaultSigners(a) } }

\* Withdraws, with and without bytes after the discriminator.
WithdrawIxs ==
    { VaultIx(d, a, sg) :
          <<d, a, sg>> \in { <<d, a, sg>> \in {<<WITHDRAW_DISCRIMINATOR>>, <<WITHDRAW_DISCRIMINATOR, 7>>}
                                             \X VaultAcctLists \X SUBSET Owners :
                                 sg \in VaultSigners(a) } }

\* Instructions with no data or with another first byte.
UnroutedIxs ==
    { VaultIx(d, <<"O1", "V1", SYSTEM_ID>>, {"O1"}) :
          d \in { <<>>, <<2>>, <<255>>, <<2, 1, 0, 0, 0, 0, 0, 0, 0>> } }

(***************************************************************************)
(* The state.                                                              *)
(***************************************************************************)
VARIABLES
    tokens,     \* balance of each asset account
    ledgers,    \* each ledger address: data length, entries, lamports
    borrower,   \* the borrower's lamports
    committed,  \* the account state the transaction started from
    txLast,     \* the last instruction of the transaction
    phase,      \* idle, running, failed, done, committed, discarded
    nIx,        \* instructions executed so far
    res,        \* the instruction executed last and its result
    pre,        \* the account state before that instruction
    loanRec,    \* per ledger: the last Loan that succeeded on it, the
                \* asset balances before that Loan, and the kinds of
                \* instruction executed since, while the ledger is open
    created,    \* ledgers a Loan of this transaction created
    ledgerUse,  \* per ledger: the entries each successful Repay found on
                \* it, in order, and whether a Loan succeeded on it since
                \* the last of them
    vaultAccts, \* vault program: lamports, data length and owning program
                \* of each owner's and each vault's address
    vaultRes,   \* the vault instruction executed last, its result and the
                \* instruction it was routed to
    vaultPre,   \* the accounts before that instruction, and per vault the
                \* kind of the last instruction that had succeeded on it
    vaultPhase, \* ready, or failed: the instruction executed last failed
                \* and its effects are still in place
    vaultN,     \* vault instructions executed so far
    vaultLastOk \* per vault: the kind of the last instruction that
                \* succeeded on it

loanVars == <<tokens, ledgers, borrower, committed, txLast, phase, nIx, res, pre,
              loanRec, created, ledgerUse>>

vaultVars == <<vaultAccts, vaultRes, vaultPre, vaultPhase, vaultN, vaultLastOk>>

vars == <<loanVars, vaultVars>>

Accounts == [tokens |-> tokens, ledgers |-> ledgers, borrower |-> borrower]

NoLoan == [toks |-> <<>>, amounts |-> <<>>, fee |-> 0,
           pre |-> [a \in TokenAccts |-> 0], between |-> {}]

NoUse == [closed |-> <<>>, open |-> FALSE]

NoRes == [op |-> "none", ix |-> NoIx, err |-> "Ok", last |-> FALSE]

\* Sizes of the program-owned account a caller may have created at "L2"
\* through the system program before the transaction (0: none).
ExternalSpaces == {0, 20, 50}

\* The vault program before its first instruction: the owners funded, no
\* vault yet; somebody may have sent lamports to the second vault's address.
VaultStart(sent) ==
    /\ vaultAccts = [k \in VaultKeys |->
                        IF k = "O1" THEN [NoAccount EXCEPT !.lamports = 3000000]
                        ELSE IF k = "O2" THEN [NoAccount EXCEPT !.lamports = 1500000]
                        ELSE IF k = "V2" THEN [NoAccount EXCEPT !.lamports = sent]
                        ELSE NoAccount]
    /\ vaultRes = [ix |-> VaultIx(<<>>, <<>>, {}), err |-> "Ok", route |-> "none"]
    /\ vaultPre = [accts |-> vaultAccts, lastOk |-> [v \in Vaults |-> "none"]]
    /\ vaultPhase = "ready"
    /\ vaultN = 0
    /\ vaultLastOk = [v \in Vaults |-> "none"]

Init ==
    /\ VaultStart(0)
    /\ tokens = [a \in TokenAccts |->
                    IF a = "P1" THEN 10000
                    ELSE IF a = "P2" THEN 5000
                    ELSE IF a = "P3" THEN U64_MAX - 1
                    ELSE 100]
    /\ \E space \in ExternalSpaces :
          ledgers = [l \in LedgerAddrs |->
                        IF l = "L2" /\ space # 0
                        THEN CreatedAccount(space, RentMinimumBalance(space))
                        ELSE EmptyLedger]
    /\ borrower = 10000000
    /\ committed = [tokens |-> tokens, ledgers |-> ledgers, borrower |-> borrower]
    /\ txLast = NoIx
    /\ phase = "idle"
    /\ nIx = 0
    /\ res = NoRes
    /\ pre = [tokens |-> tokens, ledgers |-> ledgers, borrower |-> borrower]
    /\ loanRec = [l \in LedgerAddrs |-> NoLoan]
    /\ created = {}
    /\ ledgerUse = [l \in LedgerAddrs |-> NoUse]

(***************************************************************************)
(* The host: one transaction, its instructions in order.                   *)
(***************************************************************************)
\* The effect of one instruction of this program that returned r.
Apply(op, ix, r, isLast) ==
    /\ pre' = Accounts
    /\ tokens' = r.tokens
    /\ ledgers' = r.ledgers
    /\ borrower' = r.borrower
    /\ res' = [op |-> op, ix |-> ix, err |-> r.err, last |-> isLast]
    /\ phase' = IF r.err # "Ok" THEN "failed"
                ELSE IF isLast THEN "done" ELSE "running"
    /\ nIx' = nIx + 1
    /\ loanRec' =
          [l \in LedgerAddrs |->
              IF r.err = "Ok" /\ op = "Loan" /\ ix.accts[3] = l
              THEN [toks |-> LoanTokenAccounts(ix.accts),
                    amounts |-> ix.data.amounts, fee |-> ix.data.fee,
                    pre |-> tokens, between |-> {}]
              ELSE IF /\ r.err = "Ok"
                      /\ l \in created
                      /\ r.ledgers[l].len # 0
              THEN [loanRec[l] EXCEPT !.between = @ \cup {op}]
              ELSE loanRec[l]]
    /\ created' = IF r.err = "Ok" /\ op = "Loan"
                  THEN created \cup {ix.accts[3]} ELSE created
    /\ ledgerUse' =
          [l \in LedgerAddrs |->
              IF r.err = "Ok" /\ op = "Loan" /\ ix.accts[3] = l
              THEN [ledgerUse[l] EXCEPT !.open = TRUE]
              ELSE IF r.err = "Ok" /\ op = "Repay" /\ ix.accts[2] = l
              THEN [closed |-> Append(ledgerUse[l].closed, ledgers[l].entries),
                    open |-> FALSE]
              ELSE ledgerUse[l]]
    /\ UNCHANGED <<committed, txLast>>
    /\ UNCHANGED vaultVars

OpOf(ix) ==
    IF ix.prog # ID THEN "Other"
    ELSE IF ix.data.disc = LOAN_DISCRIMINATOR THEN "Loan"
    ELSE IF ix.data.disc = REPAY_DISCRIMINATOR THEN "Repay"
    ELSE "Unknown"

BeginTransaction(last) ==
    /\ phase = "idle"
    /\ txLast' = last
    /\ phase' = "running"
    /\ UNCHANGED <<tokens, ledgers, borrower, committed, nIx, res, pre, loanRec,
                   created, ledgerUse>>
    /\ UNCHANGED vaultVars

\* A Loan instruction that is not the transaction's last.
Loan(ix, ubByte, ubKey) ==
    /\ phase = "running"
    /\ nIx < MaxIx
    /\ Apply("Loan", ix, ProcessInstruction(Accounts, ix, txLast, ubByte, ubKey), FALSE)

\* A Repay instruction that is not the transaction's last.
Repay(ix) ==
    /\ phase = "running"
    /\ nIx < MaxIx
    /\ Apply("Repay", ix, ProcessInstruction(Accounts, ix, txLast, 0, ZeroKey), FALSE)

\* An instruction of the token program between Loan and Repay: the borrower
\* sends amount from its own asset account to a pool account.
ExternalTransfer(to, amount) ==
    LET t == TokenTransfer(tokens, "B1", to, amount, "user")
    IN  /\ phase = "running"
        /\ nIx < MaxIx
        /\ t.ok
        /\ Apply("Transfer", NoIx,
                 [tokens |-> t.tokens, ledgers |-> ledgers, borrower |-> borrower,
                  err |-> "Ok"], FALSE)

\* The transaction's last instruction.
LastInstruction(ubByte, ubKey) ==
    /\ phase = "running"
    /\ IF txLast.prog = ID
       THEN Apply(OpOf(txLast), txLast,
                  ProcessInstruction(Accounts, txLast, txLast, ubByte, ubKey), TRUE)
       ELSE Apply("Other", txLast,
                  [tokens |-> tokens, ledgers |-> ledgers, borrower |-> borrower,
                   err |-> "Ok"], TRUE)

\* Every instruction succeeded: the host keeps the transaction's effects.
Commit ==
    /\ phase = "done"
    /\ phase' = "committed"
    /\ committed' = Accounts
    /\ UNCHANGED <<tokens, ledgers, borrower, txLast, nIx, res, pre, loanRec, created,
                   ledgerUse>>
    /\ UNCHANGED vaultVars

\* An instruction failed: the host discards the transaction's effects.
Discard ==
    /\ phase = "failed"
    /\ phase' = "discarded"
    /\ tokens' = committed.tokens
    /\ ledgers' = committed.ledgers
    /\ borrower' = committed.borrower
    /\ UNCHANGED <<committed, txLast, nIx, res, pre, loanRec, created, ledgerUse>>
    /\ UNCHANGED vaultVars

Next ==
    \/ \E last \in LastIxs : BeginTransaction(last)
    \/ \E ix \in LoanIxs, ubByte \in UBBytes(txLast), ubKey \in UBKeys(txLast) :
          Loan(ix, ubByte, ubKey)
    \/ \E ix \in RepayIxs : Repay(ix)
    \/ \E to \in {"P1", "P2"}, amount \in TransferAmounts : ExternalTransfer(to, amount)
    \/ \E ubByte \in UBBytes(txLast), ubKey \in UBKeys(txLast) :
          LastInstruction(ubByte, ubKey)
    \/ Commit
    \/ Discard

Spec == Init /\ [][Next]_vars

(***************************************************************************)
(* The vault program: each instruction is a transaction of its own; the    *)
(* host discards the effects of one that failed.                           *)
(***************************************************************************)
\* Instructions executed in one behaviour.
MaxVaultIx == 4

\* Lamports somebody may have sent to the second vault's address.
SentBefore == {0, 5000}

VaultInit ==
    /\ \E sent \in SentBefore : VaultStart(sent)
    /\ tokens = [a \in TokenAccts |-> 0]
    /\ ledgers = [l \in LedgerAddrs |-> EmptyLedger]
    /\ borrower = 0
    /\ committed = [tokens |-> tokens, ledgers |-> ledgers, borrower |-> borrower]
    /\ txLast = NoIx
    /\ phase = "idle"
    /\ nIx = 0
    /\ res = NoRes
    /\ pre = [tokens |-> tokens, ledgers |-> ledgers, borrower |-> borrower]
    /\ loanRec = [l \in LedgerAddrs |-> NoLoan]
    /\ created = {}
    /\ ledgerUse = [l \in LedgerAddrs |-> NoUse]

\* The effect of one instruction of the vault program that returned r.
VaultApply(ix, r) ==
    /\ vaultPhase = "ready"
    /\ vaultN < MaxVaultIx
    /\ vaultPre' = [accts |-> vaultAccts, lastOk |-> vaultLastOk]
    /\ vaultAccts' = r.st
    /\ vaultRes' = [ix |-> ix, err |-> r.err, route |-> r.route]
    /\ vaultPhase' = IF r.err = "Ok" THEN "ready" ELSE "failed"
    /\ vaultN' = vaultN + 1
    /\ vaultLastOk' = IF r.err = "Ok"
                      THEN [vaultLastOk EXCEPT ![ix.accts[2]] = r.route]
                      ELSE vaultLastOk
    /\ UNCHANGED loanVars

Deposit(ix, accepted) == VaultApply(ix, process_instruction(vaultAccts, ix, accepted))

Withdraw(ix) == VaultApply(ix, process_instruction(vaultAccts, ix, FALSE))

\* An instruction with no data or with an unknown first byte.
Unrouted(ix) == VaultApply(ix, process_instruction(vaultAccts, ix, FALSE))

\* The host discards the effects of the instruction that failed.
VaultDiscard ==
    /\ vaultPhase = "failed"
    /\ vaultPhase' = "ready"
    /\ vaultAccts' = vaultPre.accts
    /\ UNCHANGED <<vaultRes, vaultPre, vaultN, vaultLastOk>>
    /\ UNCHANGED loanVars

VaultNext ==
    \/ \E ix \in DepositIxs, accepted \in BOOLEAN : Deposit(ix, accepted)
    \/ \E ix \in WithdrawIxs : Withdraw(ix)
    \/ \E ix \in UnroutedIxs : Unrouted(ix)
    \/ VaultDiscard

VaultSpec == VaultInit /\ [][VaultNext]_vars


(***************************************************************************)
(* Vocabulary of the properties.                                           *)
(***************************************************************************)
\* floor(amount * fee_bps / 10000), over the unbounded integers.
FeeFloor(amount, fee) == (amount * fee) \div 10000

\* The legs of a recorded Loan and the two asset accounts of each.
Legs(rec) == 1..Len(rec.amounts)
ProtocolSide(rec) == [i \in Legs(rec) |-> rec.toks[2 * i - 1]]
BorrowerSide(rec) == [i \in Legs(rec) |-> rec.toks[2 * i]]

\* The balance of account a after the transfers of legs 1..n of rec, from
\* the balances before the Loan.
RECURSIVE BalanceAfterLegs(_, _, _)
BalanceAfterLegs(rec, a, n) ==
    IF n = 0 THEN rec.pre[a]
    ELSE BalanceAfterLegs(rec, a, n - 1)
            - (IF ProtocolSide(rec)[n] = a THEN rec.amounts[n] ELSE 0)
            + (IF BorrowerSide(rec)[n] = a THEN rec.amounts[n] ELSE 0)

\* The last instruction is a Repay of this program for ledger l.
MatchingRepay(last, l) ==
    /\ last.prog = ID
    /\ last.data.disc = REPAY_DISCRIMINATOR
    /\ Len(last.accts) >= 2
    /\ last.accts[2] = l

\* The instruction executed last was a Loan / a Repay naming a ledger.
JustExecuted == phase \in {"running", "failed", "done"}
LoanIssued == JustExecuted /\ res.op = "Loan"
LoanRan == LoanIssued /\ Len(res.ix.accts) >= 3
RepayRan == JustExecuted /\ res.op = "Repay" /\ Len(res.ix.accts) >= 2
LoanLedger == res.ix.accts[3]
RepayLedger == res.ix.accts[2]

\* Before the instruction executed last, ledger l was open and a Loan of
\* this transaction had created it: loanRec[l] is that Loan.
LoanOpenBefore(l) == l \in created /\ pre.ledgers[l].len # 0

\* The instruction executed last changed no account.
NothingChanged ==
    /\ tokens = pre.tokens
    /\ ledgers = pre.ledgers
    /\ borrower = pre.borrower

\* Leg i of the recorded Loan is whole under balances tok: its
\* protocol-side account holds its balance before the Loan plus the fee.
LegWhole(tok, rec, i) ==
    tok[ProtocolSide(rec)[i]] >=
        rec.pre[ProtocolSide(rec)[i]] + FeeFloor(rec.amounts[i], rec.fee)

(***************************************************************************)
(* C1: a valid Loan followed, as the last instruction, by a structurally   *)
(* matching Repay: the Repay succeeds iff every leg's protocol-side        *)
(* account holds at least its balance before the Loan plus the leg's fee.  *)
(***************************************************************************)
C1_RepaySucceedsIffEveryLegWhole ==
    (/\ RepayRan
     /\ res.last
     /\ LoanOpenBefore(RepayLedger)
     /\ RepayTokenAccounts(res.ix.accts) = ProtocolSide(loanRec[RepayLedger]))
    => (res.err = "Ok" <=>
           \A i \in Legs(loanRec[RepayLedger]) :
              LegWhole(pre.tokens, loanRec[RepayLedger], i))

(***************************************************************************)
(* C2: a Loan fails with MissingOrInvalidRepay whenever the transaction's  *)
(* last instruction is not a matching Repay, whatever else the Loan did.   *)
(***************************************************************************)
EarlierLoanErrors ==
    {"NotEnoughAccountKeys", "UnsupportedIntrospectionSource", "AssetListShape",
     "LedgerNotEmpty", "BadPayload", "ArityMismatch", "CreateAccountFailed",
     "FeeOverflow", "TransferFailed"}

C2_LoanFailsWithoutMatchingRepay ==
    (LoanRan /\ ~MatchingRepay(txLast, LoanLedger))
    => (res.err \in EarlierLoanErrors \/ res.err = "MissingOrInvalidRepay")

(***************************************************************************)
(* C3: in every committed state each ledger a Loan of the transaction      *)
(* created is closed (no data, no lamports): an address that still holds   *)
(* data holds an account no Loan of the transaction created.               *)
(***************************************************************************)
C3_NoOpenLedgerCommitted ==
    phase = "committed" =>
        \A l \in LedgerAddrs :
            /\ l \in created => ledgers[l] = EmptyLedger
            /\ ledgers[l].len # 0 => l \notin created

C3_Witness ==
    phase = "committed" /\ created # {} /\ res.op = "Repay" /\ res.last

(***************************************************************************)
(* C4: whenever a Repay succeeds on a ledger a Loan created, every leg of  *)
(* that Loan is whole: its protocol-side account holds at least its        *)
(* balance before the Loan plus the leg's fee.                             *)
(***************************************************************************)
C4_RepaidMeansEveryLegWhole ==
    (RepayRan /\ res.err = "Ok" /\ LoanOpenBefore(RepayLedger))
    => \A i \in Legs(loanRec[RepayLedger]) :
          LegWhole(tokens, loanRec[RepayLedger], i)

(***************************************************************************)
(* C5: Repay is all-or-nothing.  When an asset account supplied at some    *)
(* position holds less than the obligation of the ledger entry at that     *)
(* position, Repay fails and has changed no account; the value returned is *)
(* the one of InsufficientRepayment, and when the supplied accounts are    *)
(* the ledger's, in order, the failing check is InsufficientRepayment,     *)
(* however many earlier entries passed.                                    *)
(***************************************************************************)
EntryKeys(led) == [i \in 1..Len(led.entries) |-> led.entries[i].key]

ShortAt(tok, led, toks, i) ==
    /\ i <= Len(toks)
    /\ i <= Len(led.entries)
    /\ tok[toks[i]] < led.entries[i].balance

C5_RepayAllOrNothing ==
    (/\ RepayRan
     /\ \E i \in 1..Len(pre.ledgers[RepayLedger].entries) :
           ShortAt(pre.tokens, pre.ledgers[RepayLedger],
                   RepayTokenAccounts(res.ix.accts), i))
    => /\ res.err # "Ok"
       /\ NothingChanged
       /\ ErrCode(res.err) = ErrCode("InsufficientRepayment")
       /\ RepayTokenAccounts(res.ix.accts) = EntryKeys(pre.ledgers[RepayLedger])
             => res.err = "InsufficientRepayment"

\* The first entry passed its check and the second is short.
C5_Witness ==
    /\ RepayRan
    /\ res.err = "InsufficientRepayment"
    /\ Len(pre.ledgers[RepayLedger].entries) = 2
    /\ RepayTokenAccounts(res.ix.accts) = EntryKeys(pre.ledgers[RepayLedger])
    /\ ~ShortAt(pre.tokens, pre.ledgers[RepayLedger],
                RepayTokenAccounts(res.ix.accts), 1)
    /\ ShortAt(pre.tokens, pre.ledgers[RepayLedger],
               RepayTokenAccounts(res.ix.accts), 2)

(***************************************************************************)
(* C6: the only successful transitions of a ledger address are Loan from   *)
(* NonExistent (no data) to Open and Repay from Open to NonExistent: no    *)
(* Loan succeeds on an Open ledger, no Repay on a NonExistent one.         *)
(***************************************************************************)
C6_OnlyLoanOpensOnlyRepayCloses ==
    /\ (LoanRan /\ res.err = "Ok")
          => pre.ledgers[LoanLedger].len = 0 /\ ledgers[LoanLedger].len # 0
    /\ (RepayRan /\ res.err = "Ok")
          => pre.ledgers[RepayLedger].len # 0 /\ ledgers[RepayLedger].len = 0

(***************************************************************************)
(* C7: a Loan on a ledger that holds data fails with LedgerNotEmpty,       *)
(* whether its payload is valid or not, before any account is created or   *)
(* any transfer made.  As claimed: for every such Loan.  As amended: for   *)
(* every such Loan whose account list has the six fixed accounts, the      *)
(* introspection account and a non-empty, even-length asset tail.          *)
(***************************************************************************)
C7_NonEmptyLedgerAlwaysLedgerNotEmpty ==
    (LoanRan /\ pre.ledgers[LoanLedger].len # 0)
    => res.err = "LedgerNotEmpty" /\ NothingChanged

AccountListShapeOk(accts) ==
    /\ Len(accts) > 6
    /\ accts[4] = INSTRUCTIONS_ID
    /\ (Len(accts) - 6) % 2 = 0

C7_NonEmptyLedgerRejected ==
    (/\ LoanRan
     /\ pre.ledgers[LoanLedger].len # 0
     /\ AccountListShapeOk(res.ix.accts))
    => res.err = "LedgerNotEmpty" /\ NothingChanged

\* A Loan with a payload too short for its header, on a ledger with data.
C7_Witness ==
    /\ LoanRan
    /\ pre.ledgers[LoanLedger].len # 0
    /\ AccountListShapeOk(res.ix.accts)
    /\ res.ix.data.hdr < 3
    /\ res.err = "LedgerNotEmpty"

(***************************************************************************)
(* C8: a Loan whose number of amounts differs from half the number of its  *)
(* asset accounts fails with ArityMismatch before the ledger is created    *)
(* and before any transfer.  As claimed: for every such Loan.  As amended: *)
(* for every such Loan whose account list passes the account checks        *)
(* (introspection account, non-empty even-length asset tail, empty         *)
(* ledger).                                                                *)
(***************************************************************************)
PayloadWellFormed(data) == data.hdr = 3 /\ data.rem = 0

AmountsDisagree(ix) ==
    /\ Len(ix.accts) >= 6
    /\ PayloadWellFormed(ix.data)
    /\ Len(ix.data.amounts) # (Len(ix.accts) - 6) \div 2

C8_ArityMismatchAlways ==
    (LoanIssued /\ AmountsDisagree(res.ix))
    => res.err = "ArityMismatch" /\ NothingChanged

C8_ArityMismatchAfterAccountChecks ==
    (/\ LoanIssued
     /\ AmountsDisagree(res.ix)
     /\ AccountListShapeOk(res.ix.accts)
     /\ pre.ledgers[LoanLedger].len = 0)
    => res.err = "ArityMismatch" /\ NothingChanged

C8_Witness ==
    /\ LoanIssued
    /\ AmountsDisagree(res.ix)
    /\ res.err = "ArityMismatch"
    /\ Len(res.ix.data.amounts) > (Len(res.ix.accts) - 6) \div 2

(***************************************************************************)
(* C9: Repay rejects a ledger whose data length is no multiple of the      *)
(* entry size, whatever asset accounts are supplied, and leaves it open.   *)
(***************************************************************************)
C9_RepayRejectsRaggedLedger ==
    (RepayRan /\ pre.ledgers[RepayLedger].len % 40 # 0)
    => res.err # "Ok" /\ ledgers[RepayLedger] = pre.ledgers[RepayLedger]

(***************************************************************************)
(* C10: after a successful Loan, ledger entry i holds the identifier of    *)
(* leg i's protocol-side account and, as obligation, the balance that      *)
(* account had before leg i's transfer plus floor(amounts[i]*fee/10000).   *)
(* With pools of 10000 and 5000, amounts 1000 and 500 and a fee of 30 the  *)
(* obligations are 10003 and 5001, and a Repay that finds the first pool   *)
(* at 10002 fails.                                                         *)
(***************************************************************************)
ExampleLoan(rec) ==
    /\ rec.toks = <<"P1", "B1", "P2", "B1">>
    /\ rec.amounts = <<1000, 500>>
    /\ rec.fee = 30
    /\ rec.pre["P1"] = 10000
    /\ rec.pre["P2"] = 5000

C10_ObligationIsBalancePlusFee ==
    /\ (LoanRan /\ res.err = "Ok") =>
          LET rec == loanRec[LoanLedger]
              led == ledgers[LoanLedger]
          IN  /\ rec.pre = pre.tokens
              /\ rec.amounts = res.ix.data.amounts
              /\ led.len = 40 * Len(rec.amounts)
              /\ Len(led.entries) = Len(rec.amounts)
              /\ \A i \in Legs(rec) :
                    /\ led.entries[i].key = ProtocolSide(rec)[i]
                    /\ led.entries[i].balance =
                          BalanceAfterLegs(rec, ProtocolSide(rec)[i], i - 1)
                              + FeeFloor(rec.amounts[i], rec.fee)
              /\ ExampleLoan(rec) =>
                    /\ led.entries[1].balance = 10003
                    /\ led.entries[2].balance = 5001
    /\ (/\ RepayRan
        /\ LoanOpenBefore(RepayLedger)
        /\ ExampleLoan(loanRec[RepayLedger])
        /\ pre.tokens["P1"] = 10002)
          => res.err # "Ok"

C10_Witness ==
    /\ RepayRan
    /\ LoanOpenBefore(RepayLedger)
    /\ ExampleLoan(loanRec[RepayLedger])
    /\ pre.ledgers[RepayLedger].entries[1].balance = 10003
    /\ pre.tokens["P1"] = 10002
    /\ pre.tokens["P2"] >= 5001
    /\ res.err = "InsufficientRepayment"

(***************************************************************************)
(* C11: every failure of Loan and Repay is reported with an error value    *)
(* that identifies its kind: the values returned for ArityMismatch,        *)
(* LedgerNotEmpty, UnsupportedIntrospectionSource, FeeOverflow,            *)
(* MissingOrInvalidRepay, OutOfOrderOrWrongAccount and                     *)
(* InsufficientRepayment are pairwise distinct, so the value returned by   *)
(* a failed instruction belongs to no other of these kinds.                *)
(***************************************************************************)
IdentifiedKinds ==
    {"ArityMismatch", "LedgerNotEmpty", "UnsupportedIntrospectionSource",
     "FeeOverflow", "MissingOrInvalidRepay", "OutOfOrderOrWrongAccount",
     "InsufficientRepayment"}

C11_ErrorCodeIdentifiesKind ==
    (JustExecuted /\ res.err \in IdentifiedKinds)
    => \A k \in IdentifiedKinds :
          ErrCode(k) = ErrCode(res.err) => k = res.err

(***************************************************************************)
(* C12: Loan fails with FeeOverflow exactly when the computation of an     *)
(* obligation overflows the word (amounts[i]*fee exceeds the maximum, or   *)
(* balance plus fee does).  With k the number of entries the Loan wrote:   *)
(* none of the legs 1..k overflows, each of their entries holds the true   *)
(* obligation, the Loan failed with FeeOverflow iff leg k+1 exists and     *)
(* overflows, and no entry is stored for that leg.  As claimed, moreover:  *)
(* a leg whose true obligation fits in the word is never rejected.  As     *)
(* amended: a leg whose product and true obligation both fit is never      *)
(* rejected.                                                               *)
(***************************************************************************)
\* The Loan executed last, as a record, with the balances it started from.
IssuedLoan ==
    [toks |-> LoanTokenAccounts(res.ix.accts), amounts |-> res.ix.data.amounts,
     fee |-> res.ix.data.fee, pre |-> pre.tokens, between |-> {}]

\* The Loan executed last passed its parsing and created its ledger.
LoanProcessed ==
    /\ LoanRan
    /\ res.err \in {"Ok", "FeeOverflow", "TransferFailed", "MissingOrInvalidRepay"}

\* Entries of the Loan's ledger written so far.
WrittenCount(led) == Cardinality({i \in 1..Len(led.entries) : led.entries[i] # ZeroEntry})

\* The true obligation of leg i, as an unbounded integer.
TrueObligation(rec, i) ==
    BalanceAfterLegs(rec, ProtocolSide(rec)[i], i - 1) + FeeFloor(rec.amounts[i], rec.fee)

LegOverflows(rec, i) ==
    \/ rec.amounts[i] * rec.fee > U64_MAX
    \/ TrueObligation(rec, i) > U64_MAX

C12_FeeOverflowExactlyOnOverflow ==
    /\ (JustExecuted /\ res.err = "FeeOverflow") => LoanProcessed
    /\ LoanProcessed =>
          LET rec == IssuedLoan
              led == ledgers[LoanLedger]
              k == WrittenCount(led)
          IN  /\ \A i \in 1..k :
                    /\ ~LegOverflows(rec, i)
                    /\ led.entries[i].balance = TrueObligation(rec, i)
              /\ \A i \in (k + 1)..Len(led.entries) : led.entries[i] = ZeroEntry
              /\ res.err = "FeeOverflow"
                    <=> (k < Len(rec.amounts) /\ LegOverflows(rec, k + 1))

\* As claimed: the leg rejected with FeeOverflow has a true obligation
\* that does not fit.
C12_FittingObligationNeverRejected ==
    (LoanProcessed /\ res.err = "FeeOverflow")
    => TrueObligation(IssuedLoan, WrittenCount(ledgers[LoanLedger]) + 1) > U64_MAX

\* The product fits and the sum does not.
C12_Witness ==
    /\ LoanProcessed
    /\ res.err = "FeeOverflow"
    /\ LET rec == IssuedLoan
           k == WrittenCount(ledgers[LoanLedger])
       IN  /\ rec.amounts[k + 1] * rec.fee <= U64_MAX
           /\ TrueObligation(rec, k + 1) > U64_MAX

(***************************************************************************)
(* C13: a Loan has no partial success.  A Loan that returns success has    *)
(* made every one of its transfers and written every entry; a Loan of      *)
(* which any check fails, also after some or all transfers, returns the    *)
(* error to the host, and once the host has discarded the transaction      *)
(* every asset balance, the borrower's balance and every ledger address    *)
(* are as before the transaction.                                          *)
(***************************************************************************)
C13_LoanHasNoPartialSuccess ==
    /\ (LoanIssued /\ res.err # "Ok") => phase = "failed"
    /\ (LoanRan /\ res.err = "Ok") =>
          /\ WrittenCount(ledgers[LoanLedger]) = Len(IssuedLoan.amounts)
          /\ \A a \in TokenAccts :
                tokens[a] = BalanceAfterLegs(IssuedLoan, a, Len(IssuedLoan.amounts))
    /\ phase = "discarded" =>
          /\ tokens = committed.tokens
          /\ borrower = committed.borrower
          /\ ledgers = committed.ledgers

\* Discarded after a two-leg Loan made both transfers and its guard failed.
C13_Witness ==
    /\ phase = "discarded"
    /\ res.op = "Loan"
    /\ res.err = "MissingOrInvalidRepay"
    /\ Len(res.ix.data.amounts) = 2
    /\ pre.tokens = committed.tokens

(***************************************************************************)
(* C14: the atomicity guard looks only at the transaction's last           *)
(* instruction.  A Loan with valid inputs whose transfers succeed returns  *)
(* success whenever the last instruction is a matching Repay, at whatever  *)
(* position the Loan stands and whatever was executed before it; and any   *)
(* instructions, of other programs or of this one, may follow it before    *)
(* that Repay runs.                                                        *)
(***************************************************************************)
C14_GuardLooksOnlyAtLastInstruction ==
    (/\ LoanProcessed
     /\ res.err \notin {"FeeOverflow", "TransferFailed"}
     /\ MatchingRepay(txLast, LoanLedger))
    => /\ res.err = "Ok"
       /\ phase = "running"
       /\ ledgers[LoanLedger].len = LOAN_DATA_SIZE * Len(res.ix.data.amounts)

\* The final Repay succeeded on a ledger since whose Loan a token transfer
\* and an instruction of this program were executed.
C14_Witness ==
    /\ phase = "done"
    /\ RepayRan
    /\ res.last
    /\ res.err = "Ok"
    /\ LoanOpenBefore(RepayLedger)
    /\ {"Transfer", "Repay"} \subseteq loanRec[RepayLedger].between

(***************************************************************************)
(* C15: Loan processes its legs in ascending order: for each leg i it      *)
(* writes entry i with the identifier of the leg's protocol-side account   *)
(* (asset account 2i, counting from 0) and then transfers exactly          *)
(* amounts[i] from that account to asset account 2i+1.  A successful Loan  *)
(* has written exactly N entries and made exactly N transfers; a Loan      *)
(* stopped by a failed transfer has written that leg's entry and made the  *)
(* transfers of the legs before it.  Repay checks entry i against          *)
(* supplied account i only.                                                *)
(***************************************************************************)
\* Transfers the Loan executed last has made, given the entries it wrote.
TransfersMade(k) == IF res.err = "TransferFailed" THEN k - 1 ELSE k

\* Supplied account i is entry i's account and holds its obligation.
PositionPasses(tok, led, toks, i) ==
    /\ toks[i] = led.entries[i].key
    /\ tok[toks[i]] >= led.entries[i].balance

C15_PositionalContract ==
    /\ LoanProcessed =>
          LET rec == IssuedLoan
              led == ledgers[LoanLedger]
              k == WrittenCount(led)
          IN  /\ res.err \in {"Ok", "MissingOrInvalidRepay"} => k = Len(rec.amounts)
              /\ res.err = "TransferFailed" => k >= 1
              /\ \A i \in 1..k : led.entries[i].key = rec.toks[2 * i - 1]
              /\ \A a \in TokenAccts :
                    tokens[a] = BalanceAfterLegs(rec, a, TransfersMade(k))
    /\ (RepayRan /\ res.err \in {"Ok", "OutOfOrderOrWrongAccount", "InsufficientRepayment"}) =>
          LET led == pre.ledgers[RepayLedger]
              toks == RepayTokenAccounts(res.ix.accts)
          IN  /\ Len(toks) = Len(led.entries)
              /\ res.err = "Ok" <=>
                    \A i \in 1..Len(toks) : PositionPasses(pre.tokens, led, toks, i)

\* A two-leg Loan stopped at its second transfer: both entries written,
\* one transfer made.
C15_Witness ==
    /\ LoanProcessed
    /\ res.err = "TransferFailed"
    /\ WrittenCount(ledgers[LoanLedger]) = 2
    /\ tokens # pre.tokens

(***************************************************************************)
(* C16: Repay fails with OutOfOrderOrWrongAccount, changing nothing, when  *)
(* a supplied asset account differs from the ledger entry's account at     *)
(* the same position, also when the supplied accounts are a permutation    *)
(* of the ledger's and every balance meets its obligation.  As claimed:    *)
(* whenever some position differs.  As amended: whenever as many accounts  *)
(* are supplied as the ledger has entries and every position before the    *)
(* first that differs meets its obligation.                                *)
(***************************************************************************)
PositionDiffers(led, toks, i) ==
    /\ i <= Len(toks)
    /\ i <= Len(led.entries)
    /\ toks[i] # led.entries[i].key

C16_AnyMismatchIsOutOfOrder ==
    (/\ RepayRan
     /\ LoanOpenBefore(RepayLedger)
     /\ \E i \in 1..Len(pre.ledgers[RepayLedger].entries) :
           PositionDiffers(pre.ledgers[RepayLedger], RepayTokenAccounts(res.ix.accts), i))
    => res.err = "OutOfOrderOrWrongAccount" /\ NothingChanged

C16_FirstMismatchIsOutOfOrder ==
    RepayRan => \A i \in 1..Len(pre.ledgers[RepayLedger].entries) :
        (/\ Len(RepayTokenAccounts(res.ix.accts))
               = pre.ledgers[RepayLedger].len \div LOAN_DATA_SIZE
         /\ PositionDiffers(pre.ledgers[RepayLedger], RepayTokenAccounts(res.ix.accts), i)
         /\ \A j \in 1..(i - 1) :
               PositionPasses(pre.tokens, pre.ledgers[RepayLedger],
                              RepayTokenAccounts(res.ix.accts), j))
        => res.err = "OutOfOrderOrWrongAccount" /\ NothingChanged

\* The supplied accounts are the ledger's two accounts exchanged, and each
\* account of the ledger holds its obligation.
C16_Witness ==
    /\ RepayRan
    /\ res.err = "OutOfOrderOrWrongAccount"
    /\ LoanOpenBefore(RepayLedger)
    /\ LET led == pre.ledgers[RepayLedger]
           toks == RepayTokenAccounts(res.ix.accts)
       IN  /\ Len(led.entries) = 2
           /\ Len(toks) = 2
           /\ toks[1] = led.entries[2].key
           /\ toks[2] = led.entries[1].key
           /\ toks[1] # toks[2]
           /\ \A i \in 1..2 : pre.tokens[led.entries[i].key] >= led.entries[i].balance

(***************************************************************************)
(* C17: Repay fails with ArityMismatch, changing nothing, whenever the     *)
(* number of supplied asset accounts differs from the ledger's data        *)
(* length divided by the entry size; so a Repay that closes a ledger has   *)
(* checked every one of its entries, never a proper subset.                *)
(***************************************************************************)
C17_RepayArityMismatch ==
    RepayRan =>
        LET led == pre.ledgers[RepayLedger]
            toks == RepayTokenAccounts(res.ix.accts)
        IN  /\ Len(toks) # led.len \div 40
                  => res.err = "RepayArityMismatch" /\ NothingChanged
            /\ res.err = "Ok" =>
                  /\ Len(toks) = Len(led.entries)
                  /\ \A i \in 1..Len(led.entries) :
                        PositionPasses(pre.tokens, led, toks, i)

\* Only the first of two entries is supplied, and it holds its obligation.
C17_Witness ==
    /\ RepayRan
    /\ res.err = "RepayArityMismatch"
    /\ LoanOpenBefore(RepayLedger)
    /\ Len(pre.ledgers[RepayLedger].entries) = 2
    /\ Len(RepayTokenAccounts(res.ix.accts)) = 1
    /\ PositionPasses(pre.tokens, pre.ledgers[RepayLedger],
                      RepayTokenAccounts(res.ix.accts), 1)

(***************************************************************************)
(* C18: a successful Repay moves the ledger account's whole balance to     *)
(* the borrower and closes the ledger: afterwards the ledger holds no      *)
(* lamports and no data, the borrower's balance has grown by exactly what  *)
(* the ledger held, and the sum of the two balances is unchanged.          *)
(***************************************************************************)
C18_RepayMovesLedgerBalance ==
    (RepayRan /\ res.err = "Ok") =>
        /\ ledgers[RepayLedger].lamports = 0
        /\ ledgers[RepayLedger].len = 0
        /\ ledgers[RepayLedger].entries = <<>>
        /\ borrower = pre.borrower + pre.ledgers[RepayLedger].lamports
        /\ borrower + ledgers[RepayLedger].lamports
              = pre.borrower + pre.ledgers[RepayLedger].lamports

C18_Witness ==
    /\ RepayRan
    /\ res.err = "Ok"
    /\ LoanOpenBefore(RepayLedger)
    /\ pre.ledgers[RepayLedger].lamports
          = RentMinimumBalance(LOAN_DATA_SIZE * Len(pre.ledgers[RepayLedger].entries))
    /\ borrower > pre.borrower

(***************************************************************************)
(* C19: Repay changes no asset account's balance and modifies no ledger    *)
(* entry: it leaves every ledger as it was, except that a successful       *)
(* Repay closes its own.  From a successful Loan until that close the      *)
(* ledger's entries stay as the Loan wrote them (identifier of each leg's  *)
(* protocol-side account, and its obligation), whatever is executed in     *)
(* between.                                                                *)
(***************************************************************************)
\* Ledger l holds the entries its Loan wrote.
AsLoanWrote(led, rec) ==
    /\ led.len = LOAN_DATA_SIZE * Len(rec.amounts)
    /\ Len(led.entries) = Len(rec.amounts)
    /\ \A i \in Legs(rec) :
          led.entries[i] = [key |-> ProtocolSide(rec)[i],
                            balance |-> TrueObligation(rec, i)]

C19_RepayOnlyReadsLedger ==
    /\ RepayRan =>
          /\ tokens = pre.tokens
          /\ \A l \in LedgerAddrs :
                \/ ledgers[l] = pre.ledgers[l]
                \/ res.err = "Ok" /\ l = RepayLedger /\ ledgers[l] = EmptyLedger
    /\ phase \in {"running", "done"} =>
          \A l \in created :
              ledgers[l].len # 0 => AsLoanWrote(ledgers[l], loanRec[l])
    /\ (JustExecuted /\ res.op \in {"Repay", "Transfer", "Other", "Unknown"}) =>
          \A l \in created :
              (pre.ledgers[l].len # 0 /\ ledgers[l].len # 0)
                  => AsLoanWrote(ledgers[l], loanRec[l])

\* A Repay found an entry short and failed, after other instructions had
\* run since the Loan; the ledger is as the Loan wrote it.
C19_Witness ==
    /\ RepayRan
    /\ res.err = "InsufficientRepayment"
    /\ LoanOpenBefore(RepayLedger)
    /\ loanRec[RepayLedger].between # {}
    /\ AsLoanWrote(ledgers[RepayLedger], loanRec[RepayLedger])

(***************************************************************************)
(* C20: the ledger layout round-trips between the two instructions.  A     *)
(* Loan with N amounts creates a ledger of exactly N*40 bytes; read as     *)
(* Repay reads it, the ledger yields N entries and, for every leg i        *)
(* (from 0), at offset 40*i the identifier and at offset 40*i+32 the       *)
(* obligation the Loan wrote for the leg; and a Repay on that ledger       *)
(* decides by exactly these values.                                        *)
(***************************************************************************)
C20_LedgerLayoutRoundTrips ==
    /\ (LoanRan /\ res.err = "Ok") =>
          LET rec == IssuedLoan
              led == ledgers[LoanLedger]
          IN  /\ led.len = Len(rec.amounts) * 40
              /\ led.len \div 40 = Len(rec.amounts)
              /\ \A i \in Legs(rec) :
                    /\ ReadKeyAt(led.entries, 40 * (i - 1)) = rec.toks[2 * i - 1]
                    /\ ReadU64At(led.entries, 40 * (i - 1) + 32) = TrueObligation(rec, i)
    /\ (RepayRan /\ LoanOpenBefore(RepayLedger)) =>
          LET rec == loanRec[RepayLedger]
              toks == RepayTokenAccounts(res.ix.accts)
          IN  /\ res.err = "RepayArityMismatch" <=> Len(toks) # Len(rec.amounts)
              /\ res.err = "Ok" <=>
                    /\ Len(toks) = Len(rec.amounts)
                    /\ \A i \in Legs(rec) :
                          /\ toks[i] = ProtocolSide(rec)[i]
                          /\ pre.tokens[toks[i]] >= TrueObligation(rec, i)

\* A Repay read both entries of a two-leg Loan's ledger and accepted them.
C20_Witness ==
    /\ RepayRan
    /\ res.err = "Ok"
    /\ LoanOpenBefore(RepayLedger)
    /\ Len(loanRec[RepayLedger].amounts) = 2
    /\ pre.ledgers[RepayLedger].len = 80

(***************************************************************************)
(* C21: parsing of a Loan succeeds iff the payload holds the bump and the  *)
(* 2-byte fee (3 bytes) and what follows is a whole number of 8-byte       *)
(* amounts, the account list has the 6 fixed accounts followed by a        *)
(* non-empty even-length tail of asset accounts, the introspection account *)
(* is the runtime's, the ledger holds no data, and there are as many       *)
(* amounts as pairs of asset accounts.  Parsing changes no account: a      *)
(* rejected Loan leaves every account as it was, and an accepted one is    *)
(* processed from the accounts as they were before the instruction.        *)
(***************************************************************************)
ParseErrors ==
    {"NotEnoughAccountKeys", "UnsupportedIntrospectionSource", "AssetListShape",
     "LedgerNotEmpty", "BadPayload", "ArityMismatch"}

\* The conditions of a Loan request, on instruction ix and ledgers led.
LoanRequestValid(ix, led) ==
    /\ ix.data.hdr >= 3
    /\ (8 * Len(ix.data.amounts) + ix.data.rem) % 8 = 0
    /\ Len(ix.accts) >= 6
    /\ Len(ix.accts) - 6 > 0
    /\ (Len(ix.accts) - 6) % 2 = 0
    /\ ix.accts[4] = INSTRUCTIONS_ID
    /\ led[ix.accts[3]].len = 0
    /\ 2 * Len(ix.data.amounts) = Len(ix.accts) - 6

C21_LoanParsesIffRequestValid ==
    LoanIssued =>
        /\ res.err \notin ParseErrors <=> LoanRequestValid(res.ix, pre.ledgers)
        /\ res.err \in ParseErrors => NothingChanged
        /\ res.err \notin ParseErrors =>
              \E ubByte \in UBBytes(txLast), ubKey \in UBKeys(txLast) :
                  LET r == LoanProcess(pre, res.ix, txLast, ubByte, ubKey)
                  IN  /\ r.err = res.err
                      /\ r.tokens = tokens
                      /\ r.ledgers = ledgers
                      /\ r.borrower = borrower

\* A two-leg Loan was accepted by the parser, after an earlier instruction
\* of the transaction had moved assets.
C21_Witness ==
    /\ LoanIssued
    /\ res.err \notin ParseErrors
    /\ LoanRequestValid(res.ix, pre.ledgers)
    /\ Len(res.ix.data.amounts) = 2
    /\ pre.tokens # committed.tokens

(***************************************************************************)
(* C22: after a successful Repay the ledger address is reusable.  The      *)
(* Repay leaves the address without data and without lamports, as an       *)
(* address never used, in the transaction and in what it commits; a Loan   *)
(* on it that comes before any other successful Loan on it is never        *)
(* rejected with LedgerNotEmpty; a Loan that succeeds on it writes its own *)
(* entries and nothing else; and the Repay of that second Loan succeeds    *)
(* iff the accounts supplied are the second Loan's protocol-side accounts, *)
(* in order, each holding the second Loan's obligation.                    *)
(***************************************************************************)
\* The last successful instruction of the transaction on l was a Repay.
Repays(l) == Len(ledgerUse[l].closed)
ClosedByRepay(l) == Repays(l) >= 1 /\ ~ledgerUse[l].open

C22_RepaidLedgerIsReusable ==
    /\ phase \in {"running", "done", "committed"} =>
          \A l \in LedgerAddrs : ClosedByRepay(l) => ledgers[l] = EmptyLedger
    /\ phase = "committed" =>
          \A l \in LedgerAddrs : \A ix \in WellFormedLoans :
              (ClosedByRepay(l) /\ ix.accts[3] = l)
                  => LoanTryFrom(ix, committed.ledgers) = "Ok"
    /\ (LoanRan /\ res.err # "Ok" /\ ClosedByRepay(LoanLedger))
          => res.err # "LedgerNotEmpty"
    /\ (LoanRan /\ res.err = "Ok" /\ Repays(LoanLedger) >= 1)
          => /\ AsLoanWrote(ledgers[LoanLedger], IssuedLoan)
             /\ loanRec[LoanLedger].amounts = res.ix.data.amounts
             /\ loanRec[LoanLedger].pre = pre.tokens
    /\ (/\ RepayRan
        /\ LoanOpenBefore(RepayLedger)
        /\ Repays(RepayLedger) >= (IF res.err = "Ok" THEN 2 ELSE 1))
          => LET rec == loanRec[RepayLedger]
                 toks == RepayTokenAccounts(res.ix.accts)
             IN  res.err = "Ok" <=>
                    /\ Len(toks) = Len(rec.amounts)
                    /\ \A i \in Legs(rec) :
                          /\ toks[i] = ProtocolSide(rec)[i]
                          /\ pre.tokens[toks[i]] >= TrueObligation(rec, i)

\* A second Loan/Repay cycle completed on an address whose first cycle had
\* other entries.
C22_Witness ==
    /\ RepayRan
    /\ res.err = "Ok"
    /\ LoanOpenBefore(RepayLedger)
    /\ ledgerUse[RepayLedger].closed =
          << <<[key |-> "P1", balance |-> 10000]>>,
             <<[key |-> "P2", balance |-> 5000]>> >>
    /\ ledgers[RepayLedger] = EmptyLedger

(***************************************************************************)
(* C23: at every point of a transaction at most one ledger is open (holds  *)
(* the entries of a Loan of the transaction): every Loan that succeeds     *)
(* targets the ledger address named at the ledger position (the second     *)
(* account) of the transaction's last instruction.                         *)
(***************************************************************************)
\* The ledgers a Loan of the transaction opened and no Repay closed since.
OpenLedgers == {l \in created : ledgers[l].len # 0}

C23_AtMostOneLedgerOpen ==
    /\ Cardinality(OpenLedgers) <= 1
    /\ (LoanRan /\ res.err = "Ok") =>
          /\ Len(txLast.accts) >= 2
          /\ txLast.accts[2] = LoanLedger

(***************************************************************************)
(* Vocabulary of the vault's properties.                                   *)
(***************************************************************************)
\* The vault instruction executed last, with its effects still in place.
VaultJustExecuted == vaultN > 0 /\ (vaultPhase = "failed" \/ vaultRes.err = "Ok")

\* It was a Withdraw naming an owner and a vault.
WithdrawRan ==
    /\ VaultJustExecuted
    /\ vaultRes.route = "Withdraw"
    /\ Len(vaultRes.ix.accts) >= 2

IxOwner == vaultRes.ix.accts[1]
IxVault == vaultRes.ix.accts[2]

\* The rent-exempt minimum of an account, for its data length.
RentExemptMinimum(acct) == RentMinimumBalance(acct.data_len)

\* The owner signed, and the vault named was, before the instruction, a
\* vault of the program at the owner's derived address.
ByOwnerOnOwnVault ==
    /\ IxOwner \in vaultRes.ix.signers
    /\ vaultPre.accts[IxVault].owner = VAULT_ID
    /\ IxVault = derive_vault(IxOwner)

\* The outcome the Withdraw executed last must have by its vault's balance.
WithdrawOutcome ==
    LET before == vaultPre.accts
        minimum == RentExemptMinimum(before[IxVault])
    IN  IF before[IxVault].lamports > minimum
        THEN /\ vaultRes.err = "Ok"
             /\ vaultAccts[IxVault].lamports = minimum
             /\ vaultAccts[IxOwner].lamports =
                   before[IxOwner].lamports + (before[IxVault].lamports - minimum)
             /\ vaultAccts[IxOwner].lamports + vaultAccts[IxVault].lamports =
                   before[IxOwner].lamports + before[IxVault].lamports
        ELSE /\ vaultRes.err = "InsufficientFunds"
             /\ vaultAccts[IxOwner].lamports = before[IxOwner].lamports
             /\ vaultAccts[IxVault].lamports = before[IxVault].lamports

(***************************************************************************)
(* C24: Withdraw on a vault whose balance is strictly above the            *)
(* rent-exempt minimum of its data length leaves the vault with exactly    *)
(* that minimum and credits the owner with exactly the difference, so that *)
(* owner plus vault is unchanged; on a vault whose balance is at most the  *)
(* minimum it fails with InsufficientFunds and changes neither balance.    *)
(* As claimed: for every Withdraw on a vault of the program.  As amended:  *)
(* for every Withdraw signed by the owner on the owner's vault (owned by   *)
(* the program, at the owner's derived address); every other Withdraw      *)
(* fails with another error and changes no balance.                        *)
(***************************************************************************)
C24_EveryWithdrawByBalance ==
    (WithdrawRan /\ vaultPre.accts[IxVault].owner = VAULT_ID) => WithdrawOutcome

C24_OwnersWithdrawByBalance ==
    /\ (WithdrawRan /\ ByOwnerOnOwnVault) => WithdrawOutcome
    /\ (WithdrawRan /\ ~ByOwnerOnOwnVault) =>
          /\ vaultRes.err \notin {"Ok", "InsufficientFunds"}
          /\ vaultAccts = vaultPre.accts

\* A Withdraw took out what two Deposits had put in above the minimum.
C24_Witness ==
    /\ WithdrawRan
    /\ ByOwnerOnOwnVault
    /\ vaultRes.err = "Ok"
    /\ vaultPre.accts[IxVault].lamports = RentExemptMinimum(vaultPre.accts[IxVault]) + 500001
    /\ vaultAccts[IxVault].lamports = RentMinimumBalance(VAULT_SIZE)

(***************************************************************************)
(* C25: after any sequence of successful and failed Deposits and Withdraws *)
(* the balance of an existing vault is never below the rent-exempt minimum *)
(* of its size; and a Withdraw on a vault on which the last instruction    *)
(* that succeeded was a Withdraw (no Deposit in between) never succeeds    *)
(* and changes nothing: issued by the owner on the owner's vault it fails  *)
(* with InsufficientFunds.                                                 *)
(***************************************************************************)
\* The vaults that exist: the accounts the program created.
ExistingVaults == {v \in Vaults : vaultAccts[v].data_len # 0}

C25_VaultKeepsMinimum ==
    /\ \A v \in ExistingVaults :
          /\ vaultAccts[v].owner = VAULT_ID
          /\ vaultAccts[v].data_len = VAULT_SIZE
          /\ vaultAccts[v].lamports >= RentExemptMinimum(vaultAccts[v])
    /\ (WithdrawRan /\ vaultPre.lastOk[IxVault] = "Withdraw") =>
          /\ vaultRes.err # "Ok"
          /\ vaultAccts = vaultPre.accts
          /\ ByOwnerOnOwnVault => vaultRes.err = "InsufficientFunds"

\* The owner's second Withdraw in a row, on a vault left at its minimum.
C25_Witness ==
    /\ WithdrawRan
    /\ ByOwnerOnOwnVault
    /\ vaultPre.lastOk[IxVault] = "Withdraw"
    /\ vaultRes.err = "InsufficientFunds"
    /\ vaultAccts[IxVault].lamports = RentMinimumBalance(VAULT_SIZE)
    /\ vaultAccts[IxOwner].lamports = 3000000 - RentMinimumBalance(VAULT_SIZE)

(***************************************************************************)
(* C26: an instruction is routed to Deposit iff its first byte is 0 and to *)
(* Withdraw iff it is 1; no data or any other first byte fails with        *)
(* InvalidInstructionData; and a Deposit whose payload after the first     *)
(* byte is not exactly 8 bytes, or encodes the amount 0, fails before any  *)
(* vault is created and before any value is moved.  As claimed: it fails   *)
(* with InvalidInstructionData.  As amended: with InvalidInstructionData   *)
(* when the Deposit has at least its three accounts, and with              *)
(* NotEnoughAccountKeys when it has fewer.                                 *)
(***************************************************************************)
FirstByteIs(b) == vaultRes.ix.data # <<>> /\ Head(vaultRes.ix.data) = b

\* The Deposit's payload has no amount: wrong length, or the amount 0.
NoAmount(data) ==
    Len(Tail(data)) # 8 \/ from_le_bytes(Tail(data)) = 0

Dispatch ==
    /\ vaultRes.route = "Deposit" <=> FirstByteIs(0)
    /\ vaultRes.route = "Withdraw" <=> FirstByteIs(1)
    /\ (~FirstByteIs(0) /\ ~FirstByteIs(1)) =>
          /\ vaultRes.err = "InvalidInstructionData"
          /\ vaultAccts = vaultPre.accts

C26_DepositWithoutAmountIsInvalidData ==
    VaultJustExecuted =>
        /\ Dispatch
        /\ (FirstByteIs(0) /\ NoAmount(vaultRes.ix.data)) =>
              /\ vaultRes.err = "InvalidInstructionData"
              /\ vaultAccts = vaultPre.accts

C26_DispatchAndDepositValidation ==
    VaultJustExecuted =>
        /\ Dispatch
        /\ (FirstByteIs(0) /\ NoAmount(vaultRes.ix.data)) =>
              /\ vaultRes.err = IF Len(vaultRes.ix.accts) >= 3
                                THEN "InvalidInstructionData"
                                ELSE "NotEnoughAccountKeys"
              /\ vaultAccts = vaultPre.accts

\* A signed Deposit of the amount 0 into a vault that does not exist yet.
C26_Witness ==
    /\ VaultJustExecuted
    /\ FirstByteIs(0)
    /\ Len(Tail(vaultRes.ix.data)) = 8
    /\ from_le_bytes(Tail(vaultRes.ix.data)) = 0
    /\ vaultRes.ix.accts = <<"O1", "V1", SYSTEM_ID>>
    /\ vaultRes.ix.signers = {"O1"}
    /\ vaultPre.accts["V1"] = NoAccount
    /\ vaultRes.err = "InvalidInstructionData"

====
